---- MODULE Spec2Model ----
(***************************************************************************)
(* Model of prepare_windows_build.py: the acquisition loop, the archive    *)
(* extractor, the template engine and the verification phase of main().    *)
(* Text (file names, archive member names, template content) is a sequence *)
(* of one-character strings, so that split, endswith, replace and re.sub   *)
(* are computed rather than assumed.                                       *)
(***************************************************************************)
EXTENDS Integers, Sequences, FiniteSets, TLC

VARIABLES
  \* main()
  pc, fs, unreadable, marker, i, failed, zip_data, n, all_ok, vj, status, run,
  \* what main() did in the current run, as its output shows it
  seen, fetches, written, report,
  \* extract_lib_sources() on its own
  zf, dest, extracted, ex_pc,
  \* generate_h_from_template() on its own
  tmpl, subs, content, out, gen_pc

main_vars == <<pc, fs, unreadable, marker, i, failed, zip_data, n, all_ok, vj,
               status, run, seen, fetches, written, report>>
ex_vars   == <<zf, dest, extracted, ex_pc>>
gen_vars  == <<tmpl, subs, content, out, gen_pc>>
vars      == <<main_vars, ex_vars, gen_vars>>

----------------------------------------------------------------------------
(* Bounds *)

NumLibs    == 2   \* how many entries of DEPENDENCY_LIBS a run iterates over
MaxRuns    == 2   \* consecutive runs of main() over the same tree
MaxMembers == 4   \* members of an archive handed to extract_lib_sources
MaxLen     == 5   \* length of an enumerated template content
MaxTable   == 2   \* entries of an enumerated substitution table

----------------------------------------------------------------------------
(* Program constants *)

ALL_LIBS ==
  << <<"l","i","b","c","e","r","r","o","r">>,
     <<"l","i","b","c","t","h","r","e","a","d","s">>,
     <<"l","i","b","c","d","a","t","a">>,
     <<"l","i","b","c","l","o","c","a","l","e">>,
     <<"l","i","b","c","n","o","t","i","f","y">>,
     <<"l","i","b","c","s","p","l","i","t">>,
     <<"l","i","b","u","n","a">>,
     <<"l","i","b","c","f","i","l","e">>,
     <<"l","i","b","c","p","a","t","h">>,
     <<"l","i","b","b","f","i","o">>,
     <<"l","i","b","f","c","a","c","h","e">>,
     <<"l","i","b","f","d","a","t","a">>,
     <<"l","i","b","f","d","a","t","e","t","i","m","e">>,
     <<"l","i","b","f","g","u","i","d">>,
     <<"l","i","b","f","v","a","l","u","e">>,
     <<"l","i","b","f","w","n","t">>,
     <<"l","i","b","f","m","a","p","i">> >>

\* The list main() iterates over, cut to its first NumLibs entries.
DEPENDENCY_LIBS == SubSeq(ALL_LIBS, 1, NumLibs)

WIN_SUBS ==
  << <<<<"@","P","A","C","K","A","G","E","@">>, <<"l","i","b","p","f","f">>>>,
     <<<<"@","V","E","R","S","I","O","N","@">>, <<"2","0","2","5","0","1","0","1">>>>,
     <<<<"@","H","A","V","E","_","W","I","D","E","_","C","H","A","R","A","C","T","E","R","_","T","Y","P","E","@">>, <<"1">>>>,
     <<<<"@","H","A","V","E","_","M","U","L","T","I","_","T","H","R","E","A","D","_","S","U","P","P","O","R","T","@">>, <<"0">>>>,
     <<<<"@","H","A","V","E","_","L","I","B","B","F","I","O","@">>, <<"0">>>>,
     <<<<"@","H","A","V","E","_","S","Y","S","_","T","Y","P","E","S","_","H","@">>, <<"0">>>>,
     <<<<"@","H","A","V","E","_","I","N","T","T","Y","P","E","S","_","H","@">>, <<"0">>>>,
     <<<<"@","H","A","V","E","_","S","T","D","I","N","T","_","H","@">>, <<"1">>>>,
     <<<<"@","H","A","V","E","_","W","C","H","A","R","_","H","@">>, <<"1">>>>,
     <<<<"@","H","A","V","E","_","S","I","Z","E","3","2","_","T","@">>, <<"0">>>>,
     <<<<"@","H","A","V","E","_","S","S","I","Z","E","3","2","_","T","@">>, <<"0">>>>,
     <<<<"@","H","A","V","E","_","S","I","Z","E","6","4","_","T","@">>, <<"0">>>>,
     <<<<"@","H","A","V","E","_","S","S","I","Z","E","6","4","_","T","@">>, <<"0">>>>,
     <<<<"@","H","A","V","E","_","O","F","F","6","4","_","T","@">>, <<"0">>>> >>

\* File and directory names used by main().
N_libpff      == <<"l","i","b","p","f","f">>
N_common      == <<"c","o","m","m","o","n">>
N_include     == <<"i","n","c","l","u","d","e">>
N_setup_py    == <<"s","e","t","u","p",".","p","y">>
N_setup_cfg   == <<"s","e","t","u","p",".","c","f","g">>
N_setup_cfg_in == <<"s","e","t","u","p",".","c","f","g",".","i","n">>
N_config_h    == <<"c","o","n","f","i","g",".","h">>
N_types_h     == <<"t","y","p","e","s",".","h">>
N_features_h  == <<"f","e","a","t","u","r","e","s",".","h">>
N_definitions_h == <<"d","e","f","i","n","i","t","i","o","n","s",".","h">>
N_libpff_definitions_h ==
  <<"l","i","b","p","f","f","_","d","e","f","i","n","i","t","i","o","n","s",".","h">>
N_libpff_c    == <<"l","i","b","p","f","f",".","c">>
N_Makefile_am == <<"M","a","k","e","f","i","l","e",".","a","m">>

\* The suffixes the code tests with endswith().
Suffix_c    == <<".","c">>
Suffix_h    == <<".","h">>
Suffix_h_in == <<".","h",".","i","n">>
Suffix_in   == <<".","i","n">>

\* The characters of the class [A-Za-z0-9_].
WordChars ==
  {"A","B","C","D","E","F","G","H","I","J","K","L","M","N","O","P","Q","R","S",
   "T","U","V","W","X","Y","Z",
   "a","b","c","d","e","f","g","h","i","j","k","l","m","n","o","p","q","r","s",
   "t","u","v","w","x","y","z",
   "0","1","2","3","4","5","6","7","8","9","_"}

----------------------------------------------------------------------------
(* Text operations *)

\* str.endswith(suf)
EndsWith(s, suf) ==
  /\ Len(s) >= Len(suf)
  /\ SubSeq(s, Len(s) - Len(suf) + 1, Len(s)) = suf

\* os.path.join(a, b), with "/" as the separator
path_join(a, b) == a \o <<"/">> \o b

RECURSIVE SplitFrom(_, _, _)
SplitFrom(s, p, cur) ==
  IF p > Len(s) THEN <<cur>>
  ELSE IF s[p] = "/" THEN <<cur>> \o SplitFrom(s, p + 1, <<>>)
  ELSE SplitFrom(s, p + 1, Append(cur, s[p]))

\* member.split("/")
Split(s) == SplitFrom(s, 1, <<>>)

\* t occurs in s at position p
OccursAt(s, p, t) ==
  /\ p + Len(t) - 1 <= Len(s)
  /\ SubSeq(s, p, p + Len(t) - 1) = t

RECURSIVE ReplaceFrom(_, _, _, _)
ReplaceFrom(s, p, old, new) ==
  IF p > Len(s) THEN <<>>
  ELSE IF OccursAt(s, p, old)
       THEN new \o ReplaceFrom(s, p + Len(old), old, new)
       ELSE <<s[p]>> \o ReplaceFrom(s, p + 1, old, new)

\* content.replace(old, new): every occurrence, left to right, none overlapping
str_replace(s, old, new) == ReplaceFrom(s, 1, old, new)

RECURSIVE WordRunEnd(_, _)
\* the first position from p on that holds no character of [A-Za-z0-9_]
WordRunEnd(s, p) ==
  IF p <= Len(s) /\ s[p] \in WordChars THEN WordRunEnd(s, p + 1) ELSE p

\* where a match of @[A-Za-z0-9_]+@ starting at p ends, 0 when there is none
MatchEnd(s, p) ==
  IF s[p] # "@" THEN 0
  ELSE LET q == WordRunEnd(s, p + 1)
       IN  IF q > p + 1 /\ q <= Len(s) /\ s[q] = "@" THEN q ELSE 0

RECURSIVE ReSubFrom(_, _)
ReSubFrom(s, p) ==
  IF p > Len(s) THEN <<>>
  ELSE LET q == MatchEnd(s, p)
       IN  IF q > 0 THEN <<"0">> \o ReSubFrom(s, q + 1)
           ELSE <<s[p]>> \o ReSubFrom(s, p + 1)

\* re.sub(r"@[A-Za-z0-9_]+@", "0", content): one scan, matches do not overlap
re_sub(s) == ReSubFrom(s, 1)

\* s holds a substring of the shape @ word-characters @
HasPlaceholder(s) ==
  \E a \in 1..Len(s) : \E b \in 1..Len(s) :
     /\ a + 1 < b
     /\ s[a] = "@"
     /\ s[b] = "@"
     /\ \A m \in (a + 1)..(b - 1) : s[m] \in WordChars

----------------------------------------------------------------------------
(* Directories: whether the directory exists, and the files in it with the *)
(* data last written to each (0 = data that was there before the run).     *)

EmptyFiles == [f \in {} |-> 0]

NoDir == [exists |-> FALSE, files |-> EmptyFiles]

Dir(names) == [exists |-> TRUE, files |-> [f \in names |-> 0]]

WriteFile_keep_first(files, name, data) == files @@ (name :> data)

\* open(target, "wb").write(data): the file is created or replaced
WriteFile(files, name, data) == (name :> data) @@ files

HasSuffix(d, suf) == \E f \in DOMAIN d.files : EndsWith(f, suf)

----------------------------------------------------------------------------
(* extract_lib_sources *)

\* An archive is the sequence zf.namelist() enumerates, each member with its
\* data; member names are distinct, so zf.open(name) is that member's data.

KeepMember_exact_depth(member, lib) ==
  LET parts == Split(member)
      last  == parts[Len(parts)]
  IN  /\ Len(parts) = 3
      /\ parts[2] = lib
      /\ last # <<>>
      /\ \/ EndsWith(last, Suffix_c)
         \/ EndsWith(last, Suffix_h)
         \/ EndsWith(last, Suffix_h_in)
         \/ last = N_Makefile_am

\* the condition of the if statement on one member name
KeepMember(member, lib) ==
  LET parts == Split(member)
      last  == parts[Len(parts)]
  IN  /\ Len(parts) >= 3
      /\ parts[2] = lib
      /\ last # <<>>
      /\ \/ EndsWith(last, Suffix_c)
         \/ EndsWith(last, Suffix_h)
         \/ EndsWith(last, Suffix_h_in)
         \/ last = N_Makefile_am

\* parts[-1]
FinalComponent(member) == LET parts == Split(member) IN parts[Len(parts)]

RECURSIVE ExtractFrom(_, _, _, _)
\* the for loop over zf.namelist(), from member k on
ExtractFrom(members, lib, k, acc) ==
  IF k > Len(members) THEN acc
  ELSE IF KeepMember(members[k].name, lib)
       THEN ExtractFrom(members, lib, k + 1,
              [files |-> WriteFile(acc.files, FinalComponent(members[k].name),
                                   members[k].data),
               n     |-> acc.n + 1])
       ELSE ExtractFrom(members, lib, k + 1, acc)

extract_lib_sources(members, lib, d) ==
  LET start == IF d.exists THEN d.files ELSE EmptyFiles  \* os.makedirs
      r     == ExtractFrom(members, lib, 1, [files |-> start, n |-> 0])
  IN  [dir |-> [exists |-> TRUE, files |-> r.files], n |-> r.n]

----------------------------------------------------------------------------
(* generate_h_from_template *)

RECURSIVE ApplyFrom(_, _, _)
ApplyFrom(c, table, k) ==
  IF k > Len(table) THEN c
  ELSE ApplyFrom(str_replace(c, table[k][1], table[k][2]), table, k + 1)

RECURSIVE SimultaneousFrom(_, _, _)
\* every table token replaced in one scan of the original text
SimultaneousFrom(s, p, table) ==
  IF p > Len(s) THEN <<>>
  ELSE LET hits == {k \in 1..Len(table) : OccursAt(s, p, table[k][1])}
       IN  IF hits = {} THEN <<s[p]>> \o SimultaneousFrom(s, p + 1, table)
           ELSE LET k == CHOOSE h \in hits : \A g \in hits : h <= g
                IN  table[k][2] \o SimultaneousFrom(s, p + Len(table[k][1]), table)

table_pass_simultaneous(c, table) == SimultaneousFrom(c, 1, table)

\* for k, v in subs.items(): content = content.replace(k, v)
table_pass(c, table) == ApplyFrom(c, table, 1)

\* src_path[:-3]
dst_path(src_path) == SubSeq(src_path, 1, Len(src_path) - 3)

----------------------------------------------------------------------------
(* The tree main() runs in *)

Root             == <<>>
P_include_libpff == path_join(N_include, N_libpff)

LibNames == {DEPENDENCY_LIBS[k] : k \in 1..Len(DEPENDENCY_LIBS)}

Dirs == LibNames \cup {N_libpff, N_common, N_include, P_include_libpff, Root}

\* names of files inside a dependency directory or an archive
F_a_c    == <<"a",".","c">>
F_b_c    == <<"b",".","c">>
F_c_c    == <<"c",".","c">>
F_d_h_in == <<"d",".","h",".","i","n">>
F_e_h    == <<"e",".","h">>
F_README == <<"R","E","A","D","M","E">>
F_sub    == <<"s","u","b">>
F_other  == <<"o","t","h","e","r">>

\* What a dependency directory can hold when a run starts: nothing, sources
\* without templates (what v2 of the script left), sources and templates, or
\* templates only.
DepDirStates ==
  {NoDir, Dir({F_a_c}), Dir({F_a_c, F_d_h_in}), Dir({F_d_h_in})}

T_pristine ==
  [marker     |-> "script",
   root       |-> Dir({N_setup_py, N_setup_cfg_in}),
   common     |-> Dir({N_types_h \o Suffix_in}),
   incl       |-> Dir({N_types_h \o Suffix_in, N_features_h \o Suffix_in,
                       N_definitions_h \o Suffix_in}),
   libpff     |-> Dir({N_libpff_c, N_libpff_definitions_h \o Suffix_in}),
   unreadable |-> {}]

\* The project trees a run can start in: the marker setup.py next to the
\* script, in the working directory only, or nowhere; common/ missing; libpff/
\* without sources; include/libpff without templates; a template that cannot
\* be read.
ProjectTrees ==
  {T_pristine,
   [T_pristine EXCEPT !.marker = "cwd"],
   [T_pristine EXCEPT !.marker = "none", !.root = Dir({})],
   [T_pristine EXCEPT !.common = NoDir],
   [T_pristine EXCEPT !.libpff = Dir({N_libpff_definitions_h \o Suffix_in}),
                      !.root = Dir({N_setup_py})],
   [T_pristine EXCEPT !.incl = Dir({})],
   [T_pristine EXCEPT !.unreadable = {<<N_common, N_types_h \o Suffix_in>>}]}

\* os.path.exists(os.path.join(root, dir, name))
path_exists(f, dir, name) == f[dir].exists /\ name \in DOMAIN f[dir].files

----------------------------------------------------------------------------
(* What the network can return for a dependency *)

EmptyBytes == [kind |-> "empty", members |-> <<>>]
Garbage    == [kind |-> "garbage", members |-> <<>>]
Zip(m)     == [kind |-> "zip", members |-> m]

\* <lib>-main/<second>/<tail>
MemberName(lib, second, tail) ==
  path_join(path_join(lib \o <<"-","m","a","i","n">>, second), tail)

Archives(lib) ==
  { << [name |-> MemberName(lib, lib, F_a_c),    data |-> 1],
       [name |-> MemberName(lib, lib, F_d_h_in), data |-> 2] >>,
    << [name |-> MemberName(lib, lib, F_a_c),    data |-> 1],
       [name |-> MemberName(lib, lib, F_e_h),    data |-> 2] >>,
    << [name |-> MemberName(lib, lib, F_e_h),    data |-> 1] >>,
    << [name |-> MemberName(lib, F_other, F_c_c), data |-> 1],
       [name |-> path_join(lib \o <<"-","m","a","i","n">>, F_README),
        data |-> 2] >> }

\* urlopen raises, or the body read is empty, not an archive, or an archive
NetOutcomes(lib) ==
  {[raised |-> TRUE, body |-> EmptyBytes]}
  \cup {[raised |-> FALSE, body |-> b] :
          b \in {EmptyBytes, Garbage} \cup {Zip(a) : a \in Archives(lib)}}

download_zip(outcome) == IF outcome.raised THEN EmptyBytes ELSE outcome.body

----------------------------------------------------------------------------
(* main() *)

ShouldSkip_sources_only(d) ==
  d.exists /\ (\E f \in DOMAIN d.files : EndsWith(f, Suffix_c))

\* the two nested if statements at the head of the acquisition loop
ShouldSkip(d) ==
  IF d.exists /\ (\E f \in DOMAIN d.files : EndsWith(f, Suffix_c))
  THEN LET has_h_in == \E f \in DOMAIN d.files : EndsWith(f, Suffix_h_in)
       IN  IF has_h_in THEN TRUE ELSE FALSE
  ELSE FALSE

c_count_all_files(d) == IF d.exists THEN Cardinality(DOMAIN d.files) ELSE 0

\* len([f for f in os.listdir(d) if f.endswith(".c")]) if os.path.isdir(d) else 0
c_count(d) ==
  IF d.exists
  THEN Cardinality({f \in DOMAIN d.files : EndsWith(f, Suffix_c)})
  ELSE 0

and_ok_last(ok_so_far, ok) == ok

\* if not ok: all_ok = False
and_ok(ok_so_far, ok) == IF ~ok THEN FALSE ELSE ok_so_far

\* DEPENDENCY_LIBS + ["libpff"]
VerifyLibs == DEPENDENCY_LIBS \o <<N_libpff>>

\* the six paths of the second verification loop, as (directory, file)
VerifyPaths ==
  << <<N_common, N_types_h>>,
     <<N_common, N_config_h>>,
     <<P_include_libpff, N_types_h>>,
     <<P_include_libpff, N_features_h>>,
     <<P_include_libpff, N_definitions_h>>,
     <<N_libpff, N_libpff_definitions_h>> >>

scan_dirs == DEPENDENCY_LIBS \o <<N_libpff, N_common, P_include_libpff, N_include>>

\* the names in a scanned directory that end with .h.in
Templates(d) ==
  IF d.exists THEN {f \in DOMAIN d.files : EndsWith(f, Suffix_h_in)} ELSE {}

\* generate_h_from_template for the templates in names of one directory
GenDir(d, names) ==
  LET outs == {dst_path(f) : f \in names}
  IN  [d EXCEPT !.files = [g \in (DOMAIN d.files) \cup outs |->
                             IF g \in outs THEN 1 ELSE d.files[g]]]

\* the paths generate_h_from_template returns for the templates of dirs
GenOuts(f, dirs) ==
  UNION {{<<d, dst_path(t)>> : t \in Templates(f[d])} : d \in dirs}

\* positions in scan_dirs whose directory holds a template that cannot be read
BadScan(f, unr) ==
  {k \in 1..Len(scan_dirs) :
     \E t \in Templates(f[scan_dirs[k]]) : <<scan_dirs[k], t>> \in unr}

Running == -1

ResetRun ==
  /\ i = 0 /\ failed = <<>> /\ zip_data = EmptyBytes /\ n = 0
  /\ all_ok = TRUE /\ vj = 0 /\ status = Running
  /\ seen = <<>> /\ fetches = <<>> /\ written = {} /\ report = <<>>

ExIdle  == zf = <<>> /\ dest = NoDir /\ extracted = 0 /\ ex_pc = "idle"
GenIdle == tmpl = <<>> /\ subs = <<>> /\ content = <<>> /\ out = <<>> /\ gen_pc = "idle"
MainIdle ==
  /\ pc = "idle" /\ fs = <<>> /\ unreadable = {} /\ marker = "none" /\ run = 0
  /\ ResetRun

Init ==
  /\ \E t \in ProjectTrees : \E deps \in [LibNames -> DepDirStates] :
       /\ marker = t.marker
       /\ unreadable = t.unreadable
       /\ fs = [d \in Dirs |->
                  IF d \in LibNames THEN deps[d]
                  ELSE IF d = N_libpff THEN t.libpff
                  ELSE IF d = N_common THEN t.common
                  ELSE IF d = P_include_libpff THEN t.incl
                  ELSE IF d = N_include
                       THEN (IF t.incl.exists THEN Dir({}) ELSE NoDir)
                  ELSE t.root]
  /\ pc = "start" /\ run = 1
  /\ ResetRun
  /\ ExIdle /\ GenIdle

\* root detection: setup.py next to the script, else in the working directory,
\* else sys.exit(message), which ends the process with status 1
ResolveRoot ==
  /\ pc = "start"
  /\ IF marker = "script" \/ marker = "cwd"
     THEN pc' = "loop" /\ i' = 1 /\ failed' = <<>> /\ status' = status
     ELSE pc' = "exit_usage" /\ status' = 1 /\ UNCHANGED <<i, failed>>
  /\ UNCHANGED <<fs, unreadable, marker, zip_data, n, all_ok, vj, run,
                 seen, fetches, written, report, ex_vars, gen_vars>>

\* for lib in DEPENDENCY_LIBS: skip a directory that is already complete
LoopHead ==
  /\ pc = "loop" /\ i <= Len(DEPENDENCY_LIBS)
  /\ LET lib == DEPENDENCY_LIBS[i]
     IN  /\ seen' = Append(seen, [lib |-> lib, dir |-> fs[lib]])
         /\ IF ShouldSkip(fs[lib])
            THEN i' = i + 1 /\ pc' = pc
            ELSE i' = i /\ pc' = "download"
  /\ UNCHANGED <<fs, unreadable, marker, failed, zip_data, n, all_ok, vj,
                 status, run, fetches, written, report, ex_vars, gen_vars>>

Download_abort_on_failure ==
  /\ pc = "download"
  /\ \E o \in NetOutcomes(DEPENDENCY_LIBS[i]) :
       LET lib  == DEPENDENCY_LIBS[i]
           data == download_zip(o)
       IN  /\ zip_data' = data
           /\ fetches' = Append(fetches, [lib |-> lib, data |-> data])
           /\ IF data.kind = "empty"
              THEN /\ failed' = Append(failed, lib)
                   /\ i' = i /\ pc' = "aborted" /\ status' = 1
              ELSE /\ failed' = failed /\ i' = i /\ pc' = "extract"
                   /\ status' = status
  /\ UNCHANGED <<fs, unreadable, marker, n, all_ok, vj, run,
                 seen, written, report, ex_vars, gen_vars>>

\* zip_data = download_zip(url, lib); if not zip_data: failed.append(lib); continue
Download ==
  /\ pc = "download"
  /\ \E o \in NetOutcomes(DEPENDENCY_LIBS[i]) :
       LET lib  == DEPENDENCY_LIBS[i]
           data == download_zip(o)
       IN  /\ zip_data' = data
           /\ fetches' = Append(fetches, [lib |-> lib, data |-> data])
           /\ IF data.kind = "empty"
              THEN /\ failed' = Append(failed, lib)
                   /\ i' = i + 1 /\ pc' = "loop" /\ status' = status
              ELSE /\ failed' = failed /\ i' = i /\ pc' = "extract"
                   /\ status' = status
  /\ UNCHANGED <<fs, unreadable, marker, n, all_ok, vj, run,
                 seen, written, report, ex_vars, gen_vars>>

Extract_ignore_zero ==
  /\ pc = "extract" /\ zip_data.kind = "zip"
  /\ LET lib == DEPENDENCY_LIBS[i]
         r   == extract_lib_sources(zip_data.members, lib, fs[lib])
     IN  /\ fs' = [fs EXCEPT ![lib] = r.dir]
         /\ n' = r.n
         /\ failed' = failed
  /\ i' = i + 1 /\ pc' = "loop"
  /\ UNCHANGED <<unreadable, marker, zip_data, all_ok, vj, status, run,
                 seen, fetches, written, report, ex_vars, gen_vars>>

\* n = extract_lib_sources(zip_data, lib, dest); if n == 0: failed.append(lib)
Extract ==
  /\ pc = "extract" /\ zip_data.kind = "zip"
  /\ LET lib == DEPENDENCY_LIBS[i]
         r   == extract_lib_sources(zip_data.members, lib, fs[lib])
     IN  /\ fs' = [fs EXCEPT ![lib] = r.dir]
         /\ n' = r.n
         /\ failed' = IF r.n = 0 THEN Append(failed, lib) ELSE failed
  /\ i' = i + 1 /\ pc' = "loop"
  /\ UNCHANGED <<unreadable, marker, zip_data, all_ok, vj, status, run,
                 seen, fetches, written, report, ex_vars, gen_vars>>

\* The bytes are not an archive: os.makedirs has run, zipfile.ZipFile raises
\* BadZipFile, nothing in main() catches it, the interpreter exits with 1.
ExtractRaises ==
  /\ pc = "extract" /\ zip_data.kind = "garbage"
  /\ LET lib == DEPENDENCY_LIBS[i]
     IN  fs' = [fs EXCEPT ![lib] =
                  IF fs[lib].exists THEN fs[lib] ELSE Dir({})]
  /\ pc' = "crashed" /\ status' = 1
  /\ UNCHANGED <<unreadable, marker, i, failed, zip_data, n, all_ok, vj, run,
                 seen, fetches, written, report, ex_vars, gen_vars>>

\* if failed: sys.exit(1)
CheckFailed ==
  /\ pc = "loop" /\ i > Len(DEPENDENCY_LIBS)
  /\ IF failed # <<>>
     THEN pc' = "aborted" /\ status' = 1
     ELSE pc' = "generate" /\ status' = status
  /\ UNCHANGED <<fs, unreadable, marker, i, failed, zip_data, n, all_ok, vj,
                 run, seen, fetches, written, report, ex_vars, gen_vars>>

\* STEP 2, every template of every scanned directory readable
Generate ==
  /\ pc = "generate" /\ BadScan(fs, unreadable) = {}
  /\ LET scanned == {scan_dirs[k] : k \in 1..Len(scan_dirs)}
     IN  /\ fs' = [d \in Dirs |->
                     IF d \in scanned THEN GenDir(fs[d], Templates(fs[d]))
                     ELSE fs[d]]
         /\ written' = written \cup GenOuts(fs, scanned)
  /\ pc' = "setupcfg"
  /\ UNCHANGED <<unreadable, marker, i, failed, zip_data, n, all_ok, vj,
                 status, run, seen, fetches, report, ex_vars, gen_vars>>

\* STEP 2 reaching a template open() cannot read: the directories before it
\* are done, of its own directory the templates os.listdir returned first, and
\* the uncaught OSError ends the process with status 1
GenerateRaises ==
  /\ pc = "generate" /\ BadScan(fs, unreadable) # {}
  /\ LET bad  == BadScan(fs, unreadable)
         k0   == CHOOSE k \in bad : \A m \in bad : k <= m
         done == {scan_dirs[k] : k \in 1..(k0 - 1)}
         d0   == scan_dirs[k0]
         readable == {t \in Templates(fs[d0]) : <<d0, t>> \notin unreadable}
     IN  \E first \in SUBSET readable :
           /\ fs' = [d \in Dirs |->
                       IF d \in done THEN GenDir(fs[d], Templates(fs[d]))
                       ELSE IF d = d0 THEN GenDir(fs[d], first)
                       ELSE fs[d]]
           /\ written' = written
                \cup GenOuts(fs, done)
                \cup {<<d0, dst_path(t)>> : t \in first}
  /\ pc' = "crashed" /\ status' = 1
  /\ UNCHANGED <<unreadable, marker, i, failed, zip_data, n, all_ok, vj,
                 run, seen, fetches, report, ex_vars, gen_vars>>

\* STEP 3: setup.cfg is written from setup.cfg.in, or the minimal one
WriteSetupCfg ==
  /\ pc = "setupcfg"
  /\ fs' = [fs EXCEPT ![Root].files = WriteFile(@, N_setup_cfg, 1)]
  /\ written' = written \cup {<<Root, N_setup_cfg>>}
  /\ pc' = "config"
  /\ UNCHANGED <<unreadable, marker, i, failed, zip_data, n, all_ok, vj,
                 status, run, seen, fetches, report, ex_vars, gen_vars>>

\* STEP 4: common/config.h
WriteConfig ==
  /\ pc = "config" /\ fs[N_common].exists
  /\ fs' = [fs EXCEPT ![N_common].files = WriteFile(@, N_config_h, 1)]
  /\ written' = written \cup {<<N_common, N_config_h>>}
  /\ pc' = "verify"
  /\ UNCHANGED <<unreadable, marker, i, failed, zip_data, n, all_ok, vj,
                 status, run, seen, fetches, report, ex_vars, gen_vars>>

\* STEP 4 without a common/ directory: open() raises FileNotFoundError
WriteConfigRaises ==
  /\ pc = "config" /\ ~fs[N_common].exists
  /\ pc' = "crashed" /\ status' = 1
  /\ UNCHANGED <<fs, unreadable, marker, i, failed, zip_data, n, all_ok, vj,
                 run, seen, fetches, written, report, ex_vars, gen_vars>>

\* all_ok = True
BeginVerify ==
  /\ pc = "verify"
  /\ all_ok' = TRUE /\ vj' = 1 /\ report' = <<>>
  /\ pc' = "verify_libs"
  /\ UNCHANGED <<fs, unreadable, marker, i, failed, zip_data, n, status, run,
                 seen, fetches, written, ex_vars, gen_vars>>

\* one iteration of: for lib in DEPENDENCY_LIBS + ["libpff"]
VerifyLib ==
  /\ pc = "verify_libs"
  /\ LET ok == c_count(fs[VerifyLibs[vj]]) > 0
     IN  /\ all_ok' = and_ok(all_ok, ok)
         /\ report' = Append(report, ok)
  /\ IF vj < Len(VerifyLibs)
     THEN vj' = vj + 1 /\ pc' = pc
     ELSE vj' = 1 /\ pc' = "verify_paths"
  /\ UNCHANGED <<fs, unreadable, marker, i, failed, zip_data, n, status, run,
                 seen, fetches, written, ex_vars, gen_vars>>

\* one iteration of the loop over the six expected paths
VerifyPath ==
  /\ pc = "verify_paths"
  /\ LET ok == path_exists(fs, VerifyPaths[vj][1], VerifyPaths[vj][2])
     IN  /\ all_ok' = and_ok(all_ok, ok)
         /\ report' = Append(report, ok)
  /\ IF vj < Len(VerifyPaths)
     THEN vj' = vj + 1 /\ pc' = pc
     ELSE vj' = vj /\ pc' = "finish"
  /\ UNCHANGED <<fs, unreadable, marker, i, failed, zip_data, n, status, run,
                 seen, fetches, written, ex_vars, gen_vars>>

VerifyFinish_always_zero ==
  /\ pc = "finish"
  /\ status' = 0
  /\ pc' = "finished"
  /\ UNCHANGED <<fs, unreadable, marker, i, failed, zip_data, n, all_ok, vj,
                 run, seen, fetches, written, report, ex_vars, gen_vars>>

\* if all_ok: print the banner (main returns, status 0) else: sys.exit(1)
VerifyFinish ==
  /\ pc = "finish"
  /\ status' = IF all_ok THEN 0 ELSE 1
  /\ pc' = "finished"
  /\ UNCHANGED <<fs, unreadable, marker, i, failed, zip_data, n, all_ok, vj,
                 run, seen, fetches, written, report, ex_vars, gen_vars>>

\* the script is started again over the tree a successful run left
RunAgain ==
  /\ pc = "finished" /\ status = 0 /\ run < MaxRuns
  /\ run' = run + 1
  /\ pc' = "start"
  /\ i' = 0 /\ failed' = <<>> /\ zip_data' = EmptyBytes /\ n' = 0
  /\ all_ok' = TRUE /\ vj' = 0 /\ status' = Running
  /\ seen' = <<>> /\ fetches' = <<>> /\ written' = {} /\ report' = <<>>
  /\ UNCHANGED <<fs, unreadable, marker, ex_vars, gen_vars>>

Next ==
  \/ ResolveRoot \/ LoopHead \/ Download \/ Extract \/ ExtractRaises
  \/ CheckFailed \/ Generate \/ GenerateRaises \/ WriteSetupCfg
  \/ WriteConfig \/ WriteConfigRaises \/ BeginVerify \/ VerifyLib
  \/ VerifyPath \/ VerifyFinish \/ RunAgain

Spec == Init /\ [][Next]_vars

----------------------------------------------------------------------------
(* extract_lib_sources called on archives built member by member *)

X == <<"x">>

\* member names an archive for dependency x is built from
MemberPool ==
  { MemberName(X, X, F_a_c),
    MemberName(X, X, path_join(F_sub, F_b_c)),
    MemberName(X, F_other, F_c_c),
    MemberName(X, X, F_d_h_in),
    MemberName(X, X, path_join(F_sub, F_a_c)),
    MemberName(X, X, <<>>),
    MemberName(X, X, N_Makefile_am),
    MemberName(X, X, F_e_h),
    MemberName(X, X, F_README) }

ExInit ==
  /\ zf = <<>> /\ extracted = 0 /\ ex_pc = "build"
  /\ dest \in {NoDir, Dir({F_a_c})}
  /\ MainIdle /\ GenIdle

\* the archive gains a member; its data is its position in the enumeration
AddMember ==
  /\ ex_pc = "build" /\ Len(zf) < MaxMembers
  /\ \E name \in MemberPool :
       /\ \A k \in 1..Len(zf) : zf[k].name # name
       /\ zf' = Append(zf, [name |-> name, data |-> Len(zf) + 1])
  /\ UNCHANGED <<dest, extracted, ex_pc, main_vars, gen_vars>>

\* extracted = extract_lib_sources(zip_data, "x", dest_dir)
ExtractCall ==
  /\ ex_pc = "build"
  /\ LET r == extract_lib_sources(zf, X, dest)
     IN  dest' = r.dir /\ extracted' = r.n
  /\ ex_pc' = "done"
  /\ UNCHANGED <<zf, main_vars, gen_vars>>

ExNext == AddMember \/ ExtractCall

SpecExtract == ExInit /\ [][ExNext]_vars

----------------------------------------------------------------------------
(* generate_h_from_template called on enumerated contents and tables *)

TokA == <<"@","A","@">>
TokB == <<"@","B","@">>

Alphabet == {"@", "A", "B", " "}

TemplateContents ==
  UNION {[1..k -> Alphabet] : k \in 0..MaxLen}
  \cup {<<"@","V","E","R","S","I","O","N","@","@","A","@">>}

Pairs == {<<TokA, TokB>>, <<TokB, <<"2">>>>, <<TokA, <<"1">>>>}

\* a dict: no token twice
Tables ==
  {t \in UNION {[1..k -> Pairs] : k \in 0..MaxTable} :
     \A a \in 1..Len(t) : \A b \in 1..Len(t) : a # b => t[a][1] # t[b][1]}
  \cup {WIN_SUBS}

GenInit ==
  /\ tmpl \in TemplateContents /\ subs \in Tables
  /\ content = <<>> /\ out = <<>> /\ gen_pc = "read"
  /\ MainIdle /\ ExIdle

\* content = f.read()
GenRead ==
  /\ gen_pc = "read"
  /\ content' = tmpl /\ gen_pc' = "subst"
  /\ UNCHANGED <<tmpl, subs, out, main_vars, ex_vars>>

\* the loop over subs.items()
GenSubstitute ==
  /\ gen_pc = "subst"
  /\ content' = table_pass(content, subs) /\ gen_pc' = "default"
  /\ UNCHANGED <<tmpl, subs, out, main_vars, ex_vars>>

\* content = re.sub(r"@[A-Za-z0-9_]+@", "0", content)
GenDefault ==
  /\ gen_pc = "default"
  /\ content' = re_sub(content) /\ gen_pc' = "write"
  /\ UNCHANGED <<tmpl, subs, out, main_vars, ex_vars>>

\* f.write(content)
GenWrite ==
  /\ gen_pc = "write"
  /\ out' = content /\ gen_pc' = "done"
  /\ UNCHANGED <<tmpl, subs, content, main_vars, ex_vars>>

GenNext == GenRead \/ GenSubstitute \/ GenDefault \/ GenWrite

SpecGen == GenInit /\ [][GenNext]_vars

----------------------------------------------------------------------------
(* Properties *)

\* COMPLETE: the directory exists and holds a .c file and a .h.in file
COMPLETE(d) ==
  /\ d.exists
  /\ \E f \in DOMAIN d.files : EndsWith(f, Suffix_c)
  /\ \E f \in DOMAIN d.files : EndsWith(f, Suffix_h_in)

FetchedLibs == {fetches[k].lib : k \in 1..Len(fetches)}
FailedLibs  == {failed[k] : k \in 1..Len(failed)}

\* the keep rule as the claims state it
Kept(name, lib) ==
  LET parts == Split(name)
  IN  /\ Len(parts) >= 3
      /\ parts[2] = lib
      /\ parts[Len(parts)] # <<>>
      /\ \/ \E suf \in {Suffix_c, Suffix_h, Suffix_h_in} :
              EndsWith(parts[Len(parts)], suf)
         \/ parts[Len(parts)] = N_Makefile_am

\* the iteration for seen[k] has a fetch decision behind it
Decided(k) == ~(k = i /\ pc = "download")

\* C1: in the acquisition loop a fetch is issued for a dependency iff its
\* directory is not COMPLETE when it is processed; no dependency is fetched
\* twice in a run, and a run that finds every directory COMPLETE fetches
\* nothing.
C1_FetchIffNotComplete ==
  /\ \A k \in 1..Len(seen) :
       /\ seen[k].lib \in FetchedLibs => ~COMPLETE(seen[k].dir)
       /\ (~COMPLETE(seen[k].dir) /\ Decided(k)) => seen[k].lib \in FetchedLibs
  /\ \A a \in 1..Len(fetches) : \A b \in 1..Len(fetches) :
       a # b => fetches[a].lib # fetches[b].lib
  /\ (\A k \in 1..Len(seen) : COMPLETE(seen[k].dir)) => fetches = <<>>

C1_Witness ==
  /\ pc = "generate"
  /\ \E k \in 1..Len(seen) : COMPLETE(seen[k].dir)
  /\ \E k \in 1..Len(seen) :
       /\ seen[k].dir.exists /\ ~COMPLETE(seen[k].dir)
       /\ seen[k].lib \in FetchedLibs

ExampleMembers ==
  << MemberName(X, X, F_a_c),
     MemberName(X, X, path_join(F_sub, F_b_c)),
     MemberName(X, F_other, F_c_c),
     MemberName(X, X, F_d_h_in) >>

IsExample == Len(zf) = 4 /\ \A k \in 1..4 : zf[k].name = ExampleMembers[k]

KeptIndexes == {k \in 1..Len(zf) : Kept(zf[k].name, X)}

Final(k) == Split(zf[k].name)[Len(Split(zf[k].name))]

\* C8: of the kept members that share a last component the one enumerated
\* last decides the content of the one file of that name, and the returned
\* count is the number of kept members.
C8_LastMemberWins ==
  ex_pc = "done" =>
    /\ extracted = Cardinality(KeptIndexes)
    /\ \A k \in KeptIndexes :
         (\A m \in KeptIndexes : m > k => Final(m) # Final(k))
           => dest.files[Final(k)] = zf[k].data

C8_Witness ==
  /\ ex_pc = "done"
  /\ \E a \in KeptIndexes : \E b \in KeptIndexes :
       /\ a < b /\ Final(a) = Final(b)
       /\ dest.files[Final(a)] = zf[b].data
  /\ extracted > Cardinality({f \in DOMAIN dest.files : dest.files[f] # 0})

\* C3: the content generate_h_from_template writes holds no substring of the
\* shape @ word-characters @.
C3_FullyResolved == gen_pc = "done" => ~HasPlaceholder(out)

T_AB == << <<TokA, TokB>>, <<TokB, <<"2">>>> >>
T_BA == << <<TokB, <<"2">>>>, <<TokA, TokB>> >>

AfterTablePass == gen_pc = "default"

\* C4 as stated: the table pass over "@A@" with [(@A@,@B@),(@B@,2)] gives
\* "@B@", the text an entry introduces being left alone by the later entry.
C4_NotRecursive ==
  (AfterTablePass /\ tmpl = TokA /\ subs = T_AB) => content = TokB

\* C4 amended: each entry is applied once, in table order, to the content the
\* earlier entries left, so a later entry rewrites text an earlier entry
\* introduced and an earlier entry never rewrites text a later one introduced:
\* [(@A@,@B@),(@B@,2)] over "@A@" gives "2", the opposite order gives "@B@".
C4_Sequential ==
  (AfterTablePass /\ tmpl = TokA) =>
    /\ subs = T_AB => content = <<"2">>
    /\ subs = T_BA => content = TokB

C4_Witness == AfterTablePass /\ tmpl = TokA /\ subs = T_AB /\ content = <<"2">>

BatchPcs == {"loop", "download", "extract"}

AfterDecision ==
  {"aborted", "generate", "setupcfg", "config", "verify", "verify_libs",
   "verify_paths", "finish", "finished"}

Terminal == pc \in {"exit_usage", "aborted", "crashed", "finished"}

\* every dependency was skipped or fetched with data that gave a file
AcquiredAll ==
  /\ Len(seen) = Len(DEPENDENCY_LIBS)
  /\ \A k \in 1..Len(fetches) :
       /\ fetches[k].data.kind = "zip"
       /\ \E m \in 1..Len(fetches[k].data.members) :
            Kept(fetches[k].data.members[m].name, fetches[k].lib)

PhasesCompleted ==
  /\ <<Root, N_setup_cfg>> \in written
  /\ <<N_common, N_config_h>> \in written

\* C6: the exit status is 0 iff every dependency was acquired, generation and
\* the config writes completed, and verification ended with all_ok true; every
\* other terminating run has status 1.
C6_ExitStatus ==
  /\ Terminal => status \in {0, 1}
  /\ ~Terminal => status = Running
  /\ Terminal =>
       (status = 0 <=>
          (pc = "finished" /\ AcquiredAll /\ PhasesCompleted /\ all_ok))
  /\ pc \in {"exit_usage", "aborted", "crashed"} => status = 1

C6_Witness == pc = "finished" /\ status = 0 /\ fetches # <<>>

\* the checks of the verification phase, in the order they are made
AllChecks ==
  [k \in 1..(Len(VerifyLibs) + Len(VerifyPaths)) |->
     IF k <= Len(VerifyLibs)
     THEN /\ fs[VerifyLibs[k]].exists
          /\ \E f \in DOMAIN fs[VerifyLibs[k]].files : EndsWith(f, Suffix_c)
     ELSE LET p == VerifyPaths[k - Len(VerifyLibs)]
          IN  fs[p[1]].exists /\ p[2] \in DOMAIN fs[p[1]].files]

\* C7: all_ok is the conjunction of the checks made so far, every check is
\* made and reported whatever the earlier ones gave, and a dependency
\* directory without a .c file ends the run with all_ok false and status 1.
C7_AllOkIsConjunction ==
  /\ pc \in {"verify_libs", "verify_paths", "finish", "finished"} =>
       /\ all_ok = (\A k \in 1..Len(report) : report[k])
       /\ \A k \in 1..Len(report) : report[k] = AllChecks[k]
  /\ pc \in {"finish", "finished"} =>
       /\ Len(report) = Len(VerifyLibs) + Len(VerifyPaths)
       /\ all_ok = (\A k \in DOMAIN AllChecks : AllChecks[k])
  /\ pc = "finished" =>
       ((\E lib \in LibNames : ~HasSuffix(fs[lib], Suffix_c))
          => (~all_ok /\ status = 1))

C7_Witness ==
  /\ pc = "finished" /\ status = 1 /\ ~all_ok
  /\ ~report[1] /\ report[Len(report)]
  /\ fs[DEPENDENCY_LIBS[1]].exists

NoData(f) == f.data.kind = "empty"

WroteNone(f) ==
  /\ f.data.kind = "zip"
  /\ \A m \in 1..Len(f.data.members) : ~Kept(f.data.members[m].name, f.lib)

\* C9: a dependency whose iteration has ended is in the failed list iff it was
\* fetched and the fetch returned no data or the extraction wrote no file; a
\* dependency whose extraction wrote a file is never in it, and no dependency
\* is in it twice.
C9_FailedIffNoFiles ==
  /\ \A k \in 1..Len(seen) :
       k < i =>
         (seen[k].lib \in FailedLibs <=>
            \E f \in 1..Len(fetches) :
              /\ fetches[f].lib = seen[k].lib
              /\ (NoData(fetches[f]) \/ WroteNone(fetches[f])))
  /\ \A f \in 1..Len(fetches) :
       (~NoData(fetches[f]) /\ ~WroteNone(fetches[f]))
         => fetches[f].lib \notin FailedLibs
  /\ \A a \in 1..Len(failed) : \A b \in 1..Len(failed) :
       a # b => failed[a] # failed[b]

C9_Witness ==
  /\ pc = "aborted"
  /\ \E f \in 1..Len(fetches) :
       WroteNone(fetches[f]) /\ fetches[f].lib \in FailedLibs
  /\ \E f \in 1..Len(fetches) :
       fetches[f].data.kind = "zip" /\ fetches[f].lib \notin FailedLibs

\* C10 as stated: after a run that ends with status 0 every dependency
\* directory is COMPLETE and the next run fetches nothing.
C10_TwoRunIdempotence ==
  /\ (pc = "finished" /\ status = 0) =>
       \A lib \in LibNames : COMPLETE(fs[lib])
  /\ run > 1 => fetches = <<>>

\* C10 amended: after a run that ends with status 0 every dependency directory
\* holds a .c file; the next run fetches exactly the dependencies whose
\* directory holds no .h.in file.
C10_RefetchWithoutTemplate ==
  /\ (pc = "finished" /\ status = 0) =>
       \A lib \in LibNames : fs[lib].exists /\ HasSuffix(fs[lib], Suffix_c)
  /\ run > 1 =>
       \A k \in 1..Len(seen) :
         /\ HasSuffix(seen[k].dir, Suffix_c)
         /\ seen[k].lib \in FetchedLibs => ~HasSuffix(seen[k].dir, Suffix_h_in)
         /\ (~HasSuffix(seen[k].dir, Suffix_h_in) /\ Decided(k))
              => seen[k].lib \in FetchedLibs

C10_Witness ==
  /\ run = 2 /\ pc = "finished" /\ status = 0
  /\ fetches # <<>>
  /\ \E k \in 1..Len(seen) : seen[k].lib \notin FetchedLibs

====
